---- MODULE Spec2Model ----
(***************************************************************************)
(* The two Flask status servers of tf-rosa:                                *)
(*   base     : src/demo/app/app.py                                        *)
(*   extended : src/rosa-supply-chain-complete/demo/app/app.py             *)
(* One process runs one of the two files.  app.run binds 0.0.0.0:8080 and  *)
(* then serves requests on threads; a request is routed by the url map the *)
(* @app.route decorators built and handled by health, home or              *)
(* security_info, whose dict jsonify turns into a JSON document.           *)
(***************************************************************************)
EXTENDS Naturals, Sequences, FiniteSets

VARIABLES
    variant,    \* which of the two files the process runs
    env,        \* os.environ: a mapping from the names that are set to strings
    server,     \* "starting" | "listening" | "exited"
    exitCode,   \* the process's exit status once server = "exited", else <<>>
    socket,     \* the listening socket's address, <<>> while there is none
    requests    \* the requests received so far, in arrival order

vars == <<variant, env, server, exitCode, socket, requests>>

-----------------------------------------------------------------------------
(* Bounds and inputs *)

MaxRequests == 3

Variants == {"base", "extended"}

EnvNames == {"APP_VERSION", "IMAGE_SIGNED"}

\* The strings a variable may be set to; "" is a set, empty variable.
EnvStrings(k) == IF k = "APP_VERSION" THEN {"", "2.3.1"} ELSE {"false"}

Environments ==
    UNION { {e \in [D -> {"", "2.3.1", "false"}] : \A k \in D : e[k] \in EnvStrings(k)}
            : D \in SUBSET EnvNames }

\* The request lines a client sends.
RequestLines ==
    {<<"GET", "/health">>, <<"GET", "/">>, <<"GET", "/security">>,
     <<"POST", "/health">>, <<"GET", "/missing">>}

-----------------------------------------------------------------------------
(* Python values and os.getenv *)

PyStr(s) == [py |-> "str", v |-> s]
PyBool(b) == [py |-> "bool", v |-> b]
PyInt(n) == [py |-> "int", v |-> n]
PyList(items) == [py |-> "list", v |-> items]
PyDict(d) == [py |-> "dict", v |-> d]

\* os.getenv(key, default): the value when key is set (the empty string
\* included), the default only when key is not in os.environ.
getenv_or(e, key, default) == IF key \in DOMAIN e /\ e[key] # "" THEN e[key] ELSE default
getenv(e, key, default) == IF key \in DOMAIN e THEN e[key] ELSE default

-----------------------------------------------------------------------------
(* jsonify: the dict serialised as a JSON document, status 200 *)

JString(s) == [type |-> "string", value |-> s]
JTrue == [type |-> "true"]
JFalse == [type |-> "false"]
JNumber(n) == [type |-> "number", value |-> n]
JArray(items) == [type |-> "array", items |-> items]
JObject(members) == [type |-> "object", members |-> members]

\* Every key of the payloads, in the order Python's sorted puts strings.
Alphabet ==
    <<"algorithm", "attached", "ci_cd", "compliance", "critical", "features",
      "format", "high", "image_signature", "image_signed", "image_signing",
      "integrations", "message", "policy_compliant", "policy_enforcement",
      "sbom", "sbom_analysis", "sbom_available", "sbom_format", "scanned",
      "security_features", "security_verified", "signature_verified", "signed",
      "standards", "status", "verified", "version", "vulnerabilities",
      "vulnerability_scanning", "zero_trust">>

sorted(S) == SelectSeq(Alphabet, LAMBDA k : k \in S)

\* json.dumps as Flask's provider calls it (sort_keys): a str becomes a JSON
\* string, a bool the literal true or false, an int a number, a list an
\* array and a dict an object whose members follow the sorted keys.
RECURSIVE dumps(_)
dumps(o) ==
    CASE o.py = "str" -> JString(o.v)
      [] o.py = "bool" -> IF o.v THEN JTrue ELSE JFalse
      [] o.py = "int" -> JNumber(o.v)
      [] o.py = "list" -> JArray([i \in DOMAIN o.v |-> dumps(o.v[i])])
      [] o.py = "dict" ->
            LET ks == sorted(DOMAIN o.v)
            IN JObject([i \in DOMAIN ks |-> [key |-> ks[i], value |-> dumps(o.v[ks[i]])]])

jsonify(d) == [status |-> 200, mimetype |-> "application/json", body |-> dumps(PyDict(d))]

\* Reading a JSON object: its keys, and the value of one key.
Keys(obj) == {obj.members[i].key : i \in DOMAIN obj.members}
Field(obj, k) == LET i == CHOOSE j \in DOMAIN obj.members : obj.members[j].key = k
                 IN obj.members[i].value
Items(arr) == {arr.items[i] : i \in DOMAIN arr.items}

-----------------------------------------------------------------------------
(* The payloads of the base variant, src/demo/app/app.py *)

base_health_dict_sbom_string(version, signed) ==
    [status |-> PyStr("healthy"),
     version |-> PyStr(version),
     signed |-> PyStr(signed),
     sbom_available |-> PyStr("true")]

base_health_dict_signed_bool(version, signed) ==
    [status |-> PyStr("healthy"),
     version |-> PyStr(version),
     signed |-> PyBool(signed = "true"),
     sbom_available |-> PyBool(TRUE)]

base_health_dict(version, signed) ==
    [status |-> PyStr("healthy"),
     version |-> PyStr(version),
     signed |-> PyStr(signed),
     sbom_available |-> PyBool(TRUE)]

base_home_dict ==
    [message |-> PyStr("Secure Supply Chain Demo - ROSA"),
     security_features |-> PyList(<<
        PyStr("U+2705 Image Signing with Cosign"),
        PyStr("U+2705 SBOM Generation with Syft"),
        PyStr("U+2705 Policy Enforcement with ACS"),
        PyStr("U+2705 Zero Trust Network Policies")>>)]

base_security_info_dict_no_nist ==
    [image_signed |-> PyBool(TRUE),
     signature_verified |-> PyBool(TRUE),
     sbom_format |-> PyStr("SPDX"),
     compliance |-> PyList(<<PyStr("CIS"), PyStr("PCI-DSS")>>),
     zero_trust |-> PyBool(TRUE)]

base_security_info_dict ==
    [image_signed |-> PyBool(TRUE),
     signature_verified |-> PyBool(TRUE),
     sbom_format |-> PyStr("SPDX"),
     compliance |-> PyList(<<PyStr("CIS"), PyStr("PCI-DSS"), PyStr("NIST")>>),
     zero_trust |-> PyBool(TRUE)]

-----------------------------------------------------------------------------
(* The payloads of the extended variant,                                   *)
(* src/rosa-supply-chain-complete/demo/app/app.py                          *)

extended_health_dict_no_sbom(version, signed) ==
    [status |-> PyStr("healthy"),
     version |-> PyStr(version),
     signed |-> PyStr(signed),
     security_verified |-> PyBool(TRUE)]

extended_health_dict(version, signed) ==
    [status |-> PyStr("healthy"),
     version |-> PyStr(version),
     signed |-> PyStr(signed),
     sbom_available |-> PyBool(TRUE),
     security_verified |-> PyBool(TRUE)]

extended_home_dict_renamed ==
    [message |-> PyStr("Secure Supply Chain Demo"),
     integrations |-> PyList(<<PyStr("Red Hat Quay")>>)]

extended_home_dict ==
    [message |-> PyStr("Secure Supply Chain Demo - ROSA"),
     features |-> PyDict(
        [image_signing |-> PyStr("Cosign"),
         sbom |-> PyStr("Syft (SPDX/CycloneDX)"),
         vulnerability_scanning |-> PyStr("Trivy + Clair"),
         policy_enforcement |-> PyStr("Red Hat ACS"),
         sbom_analysis |-> PyStr("Trusted Profile Analyzer"),
         ci_cd |-> PyStr("Tekton Pipelines"),
         zero_trust |-> PyStr("Network Policies")]),
     integrations |-> PyList(<<
        PyStr("Red Hat Quay"),
        PyStr("Red Hat ACS"),
        PyStr("Trusted Profile Analyzer"),
        PyStr("OpenShift Pipelines"),
        PyStr("MLflow (AI/ML)")>>)]

extended_security_info_dict ==
    [image_signature |-> PyDict(
        [signed |-> PyBool(TRUE),
         algorithm |-> PyStr("cosign"),
         verified |-> PyBool(TRUE)]),
     sbom |-> PyDict(
        [format |-> PyStr("SPDX 2.3"),
         attached |-> PyBool(TRUE),
         signed |-> PyBool(TRUE)]),
     vulnerabilities |-> PyDict(
        [scanned |-> PyBool(TRUE),
         critical |-> PyInt(0),
         high |-> PyInt(0),
         policy_compliant |-> PyBool(TRUE)]),
     compliance |-> PyDict(
        [standards |-> PyList(<<PyStr("CIS"), PyStr("PCI-DSS"), PyStr("NIST SP 800-53")>>),
         status |-> PyStr("COMPLIANT")])]

-----------------------------------------------------------------------------
(* The url map the @app.route decorators build.  A rule registered without *)
(* methods accepts GET, and Flask adds HEAD and OPTIONS to it.             *)

Rule(path, endpoint) == [rule |-> path, endpoint |-> endpoint, methods |-> {"GET", "HEAD", "OPTIONS"}]

base_url_map ==
    {Rule("/health", "health"), Rule("/", "home"), Rule("/security", "security_info")}

extended_url_map ==
    {Rule("/health", "health"), Rule("/", "home"), Rule("/security", "security_info")}

url_map(v) == IF v = "base" THEN base_url_map ELSE extended_url_map

\* The framework's answers when no view function runs.
NotFound == [status |-> 404, mimetype |-> "text/html", body |-> JString("Not Found")]
MethodNotAllowed == [status |-> 405, mimetype |-> "text/html", body |-> JString("Method Not Allowed")]

health_dict(v, version, signed) ==
    IF v = "base" THEN base_health_dict(version, signed) ELSE extended_health_dict(version, signed)
home_dict(v) == IF v = "base" THEN base_home_dict ELSE extended_home_dict
security_info_dict(v) == IF v = "base" THEN base_security_info_dict ELSE extended_security_info_dict

\* One request handled start to finish with nothing else running: routing,
\* then the view function's body in program order.
handle(v, e, method, path) ==
    LET matching == {r \in url_map(v) : r.rule = path}
    IN IF matching = {} THEN NotFound
       ELSE LET r == CHOOSE x \in matching : TRUE
            IN IF method \notin r.methods THEN MethodNotAllowed
               ELSE CASE r.endpoint = "health" ->
                           jsonify(health_dict(v, getenv(e, "APP_VERSION", "1.0.0"),
                                                  getenv(e, "IMAGE_SIGNED", "true")))
                      [] r.endpoint = "home" -> jsonify(home_dict(v))
                      [] r.endpoint = "security_info" -> jsonify(security_info_dict(v))

-----------------------------------------------------------------------------
(* The process *)

Port == 8080

Init ==
    /\ variant \in Variants
    /\ env \in Environments
    /\ server = "starting"
    /\ exitCode = <<>>
    /\ socket = <<>>
    /\ requests = <<>>

\* app.run(host='0.0.0.0', port=8080) under __main__: the bind succeeds and
\* the server listens, or it fails and the process exits with status 1.
run_exit_zero(portFree) ==
    /\ server = "starting"
    /\ IF portFree
       THEN /\ server' = "listening"
            /\ socket' = <<[host |-> "0.0.0.0", port |-> Port]>>
            /\ exitCode' = exitCode
       ELSE /\ server' = "exited"
            /\ socket' = socket
            /\ exitCode' = <<0>>
    /\ UNCHANGED <<variant, env, requests>>

run(portFree) ==
    /\ server = "starting"
    /\ IF portFree
       THEN /\ server' = "listening"
            /\ socket' = <<[host |-> "0.0.0.0", port |-> Port]>>
            /\ exitCode' = exitCode
       ELSE /\ server' = "exited"
            /\ socket' = socket
            /\ exitCode' = <<1>>
    /\ UNCHANGED <<variant, env, requests>>

\* A request as its thread holds it: the request line, where the thread is
\* (an endpoint's line, or "done"), the view function's local value, the
\* os.getenv calls made for it, and the response once there is one.
NewRequest(method, path, pc, resp) ==
    [method |-> method, path |-> path, pc |-> pc, version |-> <<>>, reads |-> <<>>, resp |-> resp]

\* The server accepts a request and routes it: 404 without a rule for the
\* path, 405 when the rule does not accept the method, else the rule's view
\* function is entered.
receive(method, path) ==
    /\ server = "listening"
    /\ Len(requests) < MaxRequests
    /\ LET matching == {r \in url_map(variant) : r.rule = path}
       IN IF matching = {}
          THEN requests' = Append(requests, NewRequest(method, path, "done", <<NotFound>>))
          ELSE LET r == CHOOSE x \in matching : TRUE
               IN IF method \notin r.methods
                  THEN requests' = Append(requests, NewRequest(method, path, "done", <<MethodNotAllowed>>))
                  ELSE requests' = Append(requests, NewRequest(method, path, r.endpoint, <<>>))
    /\ UNCHANGED <<variant, env, server, exitCode, socket>>

\* health, line 10: "version": os.getenv("APP_VERSION", "1.0.0")
health_version_memo(i) ==
    /\ server = "listening"
    /\ requests[i].pc = "health"
    /\ LET earlier == {j \in 1..(i - 1) : requests[j].version # <<>>}
           value == IF earlier = {}
                    THEN getenv(env, "APP_VERSION", "1.0.0")
                    ELSE requests[CHOOSE j \in earlier : TRUE].version[1]
       IN requests' = [requests EXCEPT ![i].version = <<value>>,
                                       ![i].reads = Append(@, "APP_VERSION"),
                                       ![i].pc = "health_signed"]
    /\ UNCHANGED <<variant, env, server, exitCode, socket>>

health_version_setdefault(i) ==
    /\ server = "listening"
    /\ requests[i].pc = "health"
    /\ requests' = [requests EXCEPT ![i].version = <<getenv(env, "APP_VERSION", "1.0.0")>>,
                                    ![i].reads = Append(@, "APP_VERSION"),
                                    ![i].pc = "health_signed"]
    /\ env' = [k \in DOMAIN env \cup {"APP_VERSION"} |-> getenv(env, k, "1.0.0")]
    /\ UNCHANGED <<variant, server, exitCode, socket>>

health_version(i) ==
    /\ server = "listening"
    /\ requests[i].pc = "health"
    /\ requests' = [requests EXCEPT ![i].version = <<getenv(env, "APP_VERSION", "1.0.0")>>,
                                    ![i].reads = Append(@, "APP_VERSION"),
                                    ![i].pc = "health_signed"]
    /\ UNCHANGED <<variant, env, server, exitCode, socket>>

\* health, lines 11 to 13: "signed": os.getenv("IMAGE_SIGNED", "true"), the
\* constant fields, and the return of jsonify's response.
health_pop(i) ==
    /\ server = "listening"
    /\ requests[i].pc = "health_signed"
    /\ LET signed == getenv(env, "IMAGE_SIGNED", "true")
       IN requests' = [requests EXCEPT
              ![i].reads = Append(@, "IMAGE_SIGNED"),
              ![i].resp = <<jsonify(health_dict(variant, requests[i].version[1], signed))>>,
              ![i].pc = "done"]
    /\ env' = [k \in DOMAIN env \ {"IMAGE_SIGNED"} |-> env[k]]
    /\ UNCHANGED <<variant, server, exitCode, socket>>

health(i) ==
    /\ server = "listening"
    /\ requests[i].pc = "health_signed"
    /\ LET signed == getenv(env, "IMAGE_SIGNED", "true")
       IN requests' = [requests EXCEPT
              ![i].reads = Append(@, "IMAGE_SIGNED"),
              ![i].resp = <<jsonify(health_dict(variant, requests[i].version[1], signed))>>,
              ![i].pc = "done"]
    /\ UNCHANGED <<variant, env, server, exitCode, socket>>

\* home: return jsonify({...})
home(i) ==
    /\ server = "listening"
    /\ requests[i].pc = "home"
    /\ requests' = [requests EXCEPT ![i].resp = <<jsonify(home_dict(variant))>>, ![i].pc = "done"]
    /\ UNCHANGED <<variant, env, server, exitCode, socket>>

\* security_info: return jsonify({...})
security_info(i) ==
    /\ server = "listening"
    /\ requests[i].pc = "security_info"
    /\ requests' = [requests EXCEPT ![i].resp = <<jsonify(security_info_dict(variant))>>, ![i].pc = "done"]
    /\ UNCHANGED <<variant, env, server, exitCode, socket>>

Next ==
    \/ \E portFree \in BOOLEAN : run(portFree)
    \/ \E line \in RequestLines : receive(line[1], line[2])
    \/ \E i \in DOMAIN requests : health_version(i)
    \/ \E i \in DOMAIN requests : health(i)
    \/ \E i \in DOMAIN requests : home(i)
    \/ \E i \in DOMAIN requests : security_info(i)

Spec == Init /\ [][Next]_vars

\* The process environment written by the code that embeds the application
\* (os.environ[k] = s, del os.environ[k]); neither file writes it itself.
putenv(k, s) ==
    /\ env' = [x \in DOMAIN env \cup {k} |-> IF x = k THEN s ELSE env[x]]
    /\ env' # env
    /\ UNCHANGED <<variant, server, exitCode, socket, requests>>

unsetenv(k) ==
    /\ k \in DOMAIN env
    /\ env' = [x \in DOMAIN env \ {k} |-> env[x]]
    /\ UNCHANGED <<variant, server, exitCode, socket, requests>>

NextEnv ==
    \/ Next
    \/ \E k \in EnvNames : \E s \in EnvStrings(k) : putenv(k, s)
    \/ \E k \in EnvNames : unsetenv(k)

SpecEnv == Init /\ [][NextEnv]_vars

-----------------------------------------------------------------------------
(* What the claims speak of *)

Answered(i, method, path) ==
    /\ requests[i].method = method
    /\ requests[i].path = path
    /\ requests[i].pc = "done"

Response(i) == requests[i].resp[1]

Has(obj, k, value) == k \in Keys(obj) /\ Field(obj, k) = value

SetOrDefault(e, k, default) == IF k \in DOMAIN e THEN e[k] ELSE default

\* C1: every answered GET /health has status 200, status "healthy" and
\* sbom_available the boolean true, whatever the environment holds and
\* whatever was served before.
C1_HealthAlwaysHealthy ==
    \A i \in DOMAIN requests :
        Answered(i, "GET", "/health") =>
            /\ Response(i).status = 200
            /\ Has(Response(i).body, "status", JString("healthy"))
            /\ Has(Response(i).body, "sbom_available", JTrue)

C1_Witness ==
    /\ variant = "base"
    /\ DOMAIN env = {"APP_VERSION"}
    /\ Len(requests) = 3
    /\ Answered(1, "GET", "/security")
    /\ Answered(2, "POST", "/health")
    /\ Answered(3, "GET", "/health")
    /\ Response(3).status = 200

\* C2: the version field of /health is APP_VERSION's value whenever the
\* variable is set, the empty string included, and "1.0.0" exactly when it
\* is unset; IMAGE_SIGNED plays no part.
C2_VersionFromEnv ==
    \A i \in DOMAIN requests :
        Answered(i, "GET", "/health") =>
            Has(Response(i).body, "version",
                JString(IF "APP_VERSION" \in DOMAIN env THEN env["APP_VERSION"] ELSE "1.0.0"))

C2_Witness ==
    /\ "APP_VERSION" \in DOMAIN env
    /\ env["APP_VERSION"] = ""
    /\ "IMAGE_SIGNED" \in DOMAIN env
    /\ \E i \in DOMAIN requests :
          /\ Answered(i, "GET", "/health")
          /\ Field(Response(i).body, "version") = JString("")

\* C3: the signed field of /health is a JSON string, never a boolean:
\* IMAGE_SIGNED's value unchanged when set, the string "true" when unset;
\* APP_VERSION plays no part.
C3_SignedIsString ==
    \A i \in DOMAIN requests :
        Answered(i, "GET", "/health") =>
            /\ "signed" \in Keys(Response(i).body)
            /\ Field(Response(i).body, "signed").type = "string"
            /\ Field(Response(i).body, "signed").value =
                  (IF "IMAGE_SIGNED" \in DOMAIN env THEN env["IMAGE_SIGNED"] ELSE "true")

C3_Witness ==
    /\ variant = "base"
    /\ "IMAGE_SIGNED" \in DOMAIN env
    /\ env["IMAGE_SIGNED"] = "false"
    /\ "APP_VERSION" \notin DOMAIN env
    /\ \E i \in DOMAIN requests :
          /\ Answered(i, "GET", "/health")
          /\ Field(Response(i).body, "signed") = JString("false")

\* C4: two requests with the same request line get the same response, byte
\* for byte, wherever they stand in the sequence of requests.
C4_SameRequestSameResponse ==
    \A i, j \in DOMAIN requests :
        /\ requests[i].pc = "done"
        /\ requests[j].pc = "done"
        /\ requests[i].method = requests[j].method
        /\ requests[i].path = requests[j].path
        => requests[i].resp = requests[j].resp

C4_Witness ==
    /\ Len(requests) = 3
    /\ DOMAIN env = {"IMAGE_SIGNED"}
    /\ Answered(1, "GET", "/health")
    /\ Answered(2, "GET", "/")
    /\ Answered(3, "GET", "/health")
    /\ Response(1) = Response(3)

\* C5: every answered GET / has status 200 and the message
\* "Secure Supply Chain Demo - ROSA".
C5_HomeMessage ==
    \A i \in DOMAIN requests :
        Answered(i, "GET", "/") =>
            /\ Response(i).status = 200
            /\ Has(Response(i).body, "message", JString("Secure Supply Chain Demo - ROSA"))

C5_Witness ==
    /\ variant = "extended"
    /\ DOMAIN env = EnvNames
    /\ Len(requests) = 2
    /\ Answered(1, "GET", "/health")
    /\ Answered(2, "GET", "/")
    /\ Response(2).status = 200

\* The list of standards a /security body carries: compliance itself in the
\* base variant, compliance.standards in the extended one.
Standards(body) ==
    IF Field(body, "compliance").type = "array"
    THEN Items(Field(body, "compliance"))
    ELSE Items(Field(Field(body, "compliance"), "standards"))

\* C6: every answered GET /security has status 200 and a compliance list
\* holding "CIS", "PCI-DSS" and the variant's NIST standard.
C6_SecurityCompliance ==
    \A i \in DOMAIN requests :
        Answered(i, "GET", "/security") =>
            /\ Response(i).status = 200
            /\ "compliance" \in Keys(Response(i).body)
            /\ Field(Response(i).body, "compliance").type =
                  (IF variant = "base" THEN "array" ELSE "object")
            /\ {JString("CIS"), JString("PCI-DSS"),
                JString(IF variant = "base" THEN "NIST" ELSE "NIST SP 800-53")}
                  \subseteq Standards(Response(i).body)

C6_Witness ==
    /\ variant = "base"
    /\ env # << >>
    /\ Len(requests) = 2
    /\ Answered(1, "GET", "/missing")
    /\ Answered(2, "GET", "/security")
    /\ JString("NIST") \in Standards(Response(2).body)

\* C7: a listening server holds the socket 0.0.0.0:8080 and requests are
\* served only by a listening server; a process whose bind failed has exited
\* with a non-zero status, holds no socket, has served nothing and does
\* nothing more; a listening server stays listening whatever is requested.
C7_BindOrExit ==
    /\ [](server = "listening" => socket = <<[host |-> "0.0.0.0", port |-> 8080]>> /\ exitCode = <<>>)
    /\ [](requests # <<>> => server = "listening")
    /\ [](server = "exited" =>
            /\ exitCode # <<>>
            /\ exitCode[1] # 0
            /\ socket = <<>>
            /\ requests = <<>>)
    /\ [][server = "listening" => server' = "listening"]_vars
    /\ [][server = "exited" => UNCHANGED vars]_vars

C7_Witness ==
    /\ server = "exited"
    /\ exitCode = <<1>>
    /\ socket = <<>>

\* C8: however the threads interleave, an answered request holds the
\* response it would get handled alone under the same environment, and a
\* step of one request leaves the environment, the server and every other
\* request as they were.
C8_RequestsIndependent ==
    /\ [](\A i \in DOMAIN requests :
            requests[i].pc = "done" =>
                requests[i].resp = <<handle(variant, env, requests[i].method, requests[i].path)>>)
    /\ [][server = "listening" =>
            /\ env' = env
            /\ variant' = variant
            /\ server' = server
            /\ socket' = socket
            /\ \A i \in DOMAIN requests : requests[i].pc = "done" => requests'[i] = requests[i]
            /\ Cardinality({i \in DOMAIN requests : requests'[i] # requests[i]}) <= 1]_vars

C8_Witness ==
    /\ Len(requests) = 3
    /\ requests[1].path = "/health"
    /\ requests[1].pc = "health_signed"
    /\ Answered(2, "GET", "/health")
    /\ requests[3].pc = "security_info"

\* C9: both variants register the rules /health, / and /security with the
\* same methods and answer every request line with the same status; the
\* extended /health body is the base /health body for the same environment
\* plus security_verified = true, a field the base body never has.
C9_SameSurface ==
    /\ {[rule |-> r.rule, methods |-> r.methods] : r \in base_url_map}
          = {[rule |-> r.rule, methods |-> r.methods] : r \in extended_url_map}
    /\ {r.rule : r \in url_map(variant)} = {"/health", "/", "/security"}
    /\ \A i \in DOMAIN requests :
          requests[i].pc = "done" =>
              /\ Response(i).status = handle("base", env, requests[i].method, requests[i].path).status
              /\ Response(i).status = handle("extended", env, requests[i].method, requests[i].path).status
    /\ \A i \in DOMAIN requests :
          Answered(i, "GET", "/health") =>
              LET got == Response(i).body
                  base == handle("base", env, "GET", "/health").body
              IN /\ "security_verified" \notin Keys(base)
                 /\ variant = "base" => got = base
                 /\ variant = "extended" =>
                       /\ Keys(got) = Keys(base) \cup {"security_verified"}
                       /\ \A k \in Keys(base) : Field(got, k) = Field(base, k)
                       /\ Field(got, "security_verified") = JTrue

C9_Witness ==
    /\ variant = "extended"
    /\ env # << >>
    /\ \E i \in DOMAIN requests :
          /\ Answered(i, "GET", "/health")
          /\ Has(Response(i).body, "security_verified", JTrue)
    /\ \E i \in DOMAIN requests : Answered(i, "POST", "/health")

\* C10: a /health request calls os.getenv once for APP_VERSION and once for
\* IMAGE_SIGNED, each call returning what the environment holds at that
\* moment, so its response carries the values of its own handling; the other
\* requests make no call.
C10_ReadPerRequest ==
    /\ [](\A i \in DOMAIN requests :
            requests[i].reads =
                CASE requests[i].pc = "health_signed" -> <<"APP_VERSION">>
                  [] requests[i].pc = "done" /\ requests[i].path = "/health"
                       /\ requests[i].method = "GET" -> <<"APP_VERSION", "IMAGE_SIGNED">>
                  [] OTHER -> <<>>)
    /\ [][\A i \in DOMAIN requests :
            /\ (requests[i].pc = "health" /\ requests'[i].pc # "health") =>
                   requests'[i].version = <<SetOrDefault(env, "APP_VERSION", "1.0.0")>>
            /\ (requests[i].pc = "health_signed" /\ requests'[i].pc # "health_signed") =>
                   /\ requests'[i].pc = "done"
                   /\ Has(requests'[i].resp[1].body, "version", JString(requests[i].version[1]))
                   /\ Has(requests'[i].resp[1].body, "signed",
                          JString(SetOrDefault(env, "IMAGE_SIGNED", "true")))]_vars

C10_Witness ==
    /\ Len(requests) = 2
    /\ Answered(1, "GET", "/health")
    /\ Answered(2, "GET", "/health")
    /\ Field(Response(1).body, "version") = JString("2.3.1")
    /\ Field(Response(2).body, "version") = JString("1.0.0")
    /\ Field(Response(1).body, "signed") = JString("true")
    /\ Field(Response(2).body, "signed") = JString("false")

====
